---- MODULE Spec2Model ----
(***************************************************************************)
(* Room/game engine of the drawing-and-guessing server.                    *)
(*                                                                         *)
(* The repository holds three variants of the engine, all modelled here    *)
(* over one state, selected by `variant`:                                  *)
(*   "legacy"  src/index.js            (random drawer, no timer,           *)
(*                                      dedicated word:guess event)        *)
(*   "socket"  src/unnamed/part_000 1-355   (round-robin, round timer)     *)
(*   "grpc"    src/unnamed/part_000 357-753 (class GameLogic) driven by    *)
(*             src/grpc-server.js                                          *)
(*                                                                         *)
(* Time: a round timer's clock is counted in whole seconds from the        *)
(* instant startTimer ran (Date.now() = 0 there), one setInterval callback *)
(* per second.  Display names, joinedAt and turnStartTime stamps are not   *)
(* modelled; payloads of emitted events carry the fields the engine        *)
(* decides.                                                                *)
(***************************************************************************)
EXTENDS Integers, Sequences, FiniteSets, TLC

\* ------------------------------------------------------------------ bounds
NumConns == 2
NumGuessers == 6
MaxTextLen == 2
NumJoiners == 3
NumPlayers == 4
MaxTurns == 2

\* ------------------------------------------------------- program constants
RoundSeconds == 60
Null == 0
NullTime == -1

ConnIds == 1..NumConns
DefaultRoom == "default"
NoRoom == ""
Rooms == {DefaultRoom}
RawRooms == Rooms \cup {NoRoom}
Variants == {"legacy", "socket", "grpc"}

\* Texts are sequences of one-character strings; NullWord is JS null.
NullWord == <<"null">>
Words == {<<"a">>, <<"b">>}
Texts == {<<"A", " ">>}

VARIABLES variant, conn, roomUsers, roomGames, roomCorrectGuessers, roomTimers,
          intervals, roomTurnOrder, roomTurnIndex, roomConnections,
          emitted, crashed, turns, last, awards

vars == <<variant, conn, roomUsers, roomGames, roomCorrectGuessers, roomTimers,
          intervals, roomTurnOrder, roomTurnIndex, roomConnections,
          emitted, crashed, turns, last, awards>>

\* ------------------------------------------------------------ JS Map / Array
Has(m, k) == k \in DOMAIN m

Put(m, k, v) == [x \in DOMAIN m \cup {k} |-> IF x = k THEN v ELSE m[x]]

Del(m, k) == [x \in DOMAIN m \ {k} |-> m[x]]

EmptyMap == [x \in {} |-> Null]

Max(a, b) == IF a >= b THEN a ELSE b

\* Map<userId, userInfo> kept as the sequence of its values in insertion order.
UserIds(users) == {users[i].id : i \in 1..Len(users)}

UserGet(users, id) == users[CHOOSE i \in 1..Len(users) : users[i].id = id]

UserSet(users, u) ==
    IF u.id \in UserIds(users)
    THEN [i \in 1..Len(users) |-> IF users[i].id = u.id THEN u ELSE users[i]]
    ELSE Append(users, u)

UserDelete(users, id) == SelectSeq(users, LAMBDA u : u.id # id)

\* Array.from(roomUsers.get(room)?.values() || [])
UsersOf(S, room) == IF Has(S.roomUsers, room) THEN S.roomUsers[room] ELSE <<>>

\* --------------------------------------------------------------- text
toLowerCase(s) ==
    [i \in 1..Len(s) |-> IF s[i] = "A" THEN "a" ELSE IF s[i] = "B" THEN "b" ELSE s[i]]

RECURSIVE trim(_)
trim(s) ==
    IF s = <<>> THEN s
    ELSE IF Head(s) = " " THEN trim(Tail(s))
    ELSE IF s[Len(s)] = " " THEN trim(SubSeq(s, 1, Len(s) - 1))
    ELSE s

\* JS truthiness of game.currentWord
Truthy(word) == word # NullWord /\ word # <<>>

\* --------------------------------------------------------------- the store
\* The engine's mutable state as one record, threaded through the handlers.
Store ==
    [conn |-> conn, roomUsers |-> roomUsers, roomGames |-> roomGames,
     roomCorrectGuessers |-> roomCorrectGuessers, roomTimers |-> roomTimers,
     intervals |-> intervals, roomTurnOrder |-> roomTurnOrder,
     roomTurnIndex |-> roomTurnIndex, roomConnections |-> roomConnections,
     emitted |-> <<>>, thrown |-> FALSE]

\* getRoom: socket.handshake.query.room || "default"
getRoom(raw) == IF raw = NoRoom THEN DefaultRoom ELSE raw

\* getUserInfo: { id, userName, joinedAt } (GameLogic adds points: 0; a missing
\* points field counts as 0 wherever the code reads it: user.points || 0)
getUserInfo(id) == [id |-> id, points |-> 0]

\* Sockets socket.io holds in `room`: joined on connection, left on disconnect.
SocketsIn(S, room) ==
    {c \in DOMAIN S.conn : S.conn[c].status = "open" /\ S.conn[c].room = room}

\* One delivery: the event, the room it concerns and the connections written to.
Emit(S, room, to, ev) ==
    [S EXCEPT !.emitted = Append(@, [room |-> room, to |-> to, ev |-> ev])]

\* Map<room, Set<call>> kept as the sequence of its entries in insertion order
\* (cleanup iterates it).
ConnsHas(rc, room) == \E i \in 1..Len(rc) : rc[i].room = room

ConnsGet(rc, room) == rc[CHOOSE i \in 1..Len(rc) : rc[i].room = room].calls

ConnsSet(rc, room, calls) ==
    IF ConnsHas(rc, room)
    THEN [i \in 1..Len(rc) |->
            IF rc[i].room = room THEN [room |-> room, calls |-> calls] ELSE rc[i]]
    ELSE Append(rc, [room |-> room, calls |-> calls])

ConnsDelete(rc, room) == SelectSeq(rc, LAMBDA e : e.room # room)

\* An exception thrown inside a handler: the statements after it do not run.
Throw(S) == [S EXCEPT !.thrown = TRUE]

\* call.write(event) throws on a call whose stream has failed.
Writable(S, c) == S.conn[c].status # "broken"

\* broadcastToRoom without the try/catch around call.write: a failing write
\* ends the forEach and leaves the broadcast as an exception.
broadcastToRoom_noCatch(S, room, ev, exclude) ==
    IF ConnsHas(S.roomConnections, room)
    THEN LET calls == ConnsGet(S.roomConnections, room) \ {exclude} IN
         IF \A c \in calls : Writable(S, c)
         THEN Emit(S, room, calls, ev)
         ELSE Throw(S)
    ELSE S

\* GameLogic.broadcastToRoom(room, event, excludeCall): every call of the
\* room's connection set but excludeCall is written to; a write that throws
\* is logged and the forEach goes on.
broadcastToRoom(S, room, ev, exclude) ==
    IF ConnsHas(S.roomConnections, room)
    THEN Emit(S, room,
              {c \in ConnsGet(S.roomConnections, room) \ {exclude} :
                  Writable(S, c)}, ev)
    ELSE S

\* io.to(room).emit(ev) / this.broadcastToRoom(room, ev)
ToRoom(S, room, ev) ==
    IF variant = "grpc" THEN broadcastToRoom(S, room, ev, Null)
    ELSE Emit(S, room, SocketsIn(S, room), ev)

\* socket.to(room).emit(ev) / this.broadcastToRoom(room, ev, call)
ToOthers(S, room, c, ev) ==
    IF variant = "grpc" THEN broadcastToRoom(S, room, ev, c)
    ELSE Emit(S, room, SocketsIn(S, room) \ {c}, ev)

updateRoomUsers(S, room) ==
    ToRoom(S, room, [type |-> "usersUpdate", users |-> UsersOf(S, room)])

initializeGame(S, room) ==
    IF Has(S.roomGames, room) THEN S
    ELSE [S EXCEPT !.roomGames = Put(@, room,
            [currentDrawer |-> Null, currentWord |-> NullWord,
             gameStarted |-> FALSE, timerEndTime |-> NullTime])]

clearTimer(S, room) ==
    LET S1 == IF Has(S.roomTimers, room)
              THEN [S EXCEPT
                      !.intervals = {iv \in @ : iv.id # S.roomTimers[room]},
                      !.roomTimers = Del(@, room)]
              ELSE S
    IN IF Has(S1.roomGames, room)
       THEN [S1 EXCEPT !.roomGames[room].timerEndTime = NullTime]
       ELSE S1

\* setInterval: a fresh handle, the callback's captured room and duration, and
\* the seconds elapsed since it was set.
NewInterval(S, room, durationSeconds) ==
    [id |-> CHOOSE n \in 1..(Cardinality(S.intervals) + 1) :
                \A iv \in S.intervals : iv.id # n,
     room |-> room, total |-> durationSeconds, now |-> 0]

\* startTimer that forgets to clear the room's running timer first.
startTimer_noClear(S, room, durationSeconds) ==
    IF ~Has(S.roomGames, room) THEN S
    ELSE
      LET S2 == [S EXCEPT !.roomGames[room].timerEndTime = 0 + durationSeconds]
          S3 == ToRoom(S2, room, [type |-> "timerUpdate",
                                  remaining |-> durationSeconds,
                                  total |-> durationSeconds])
          iv == NewInterval(S3, room, durationSeconds)
      IN [S3 EXCEPT !.intervals = @ \cup {iv},
                    !.roomTimers = Put(@, room, iv.id)]

startTimer(S, room, durationSeconds) ==
    LET S1 == clearTimer(S, room) IN
    IF ~Has(S1.roomGames, room) THEN S1
    ELSE
      LET S2 == [S1 EXCEPT !.roomGames[room].timerEndTime = 0 + durationSeconds]
          S3 == ToRoom(S2, room, [type |-> "timerUpdate",
                                  remaining |-> durationSeconds,
                                  total |-> durationSeconds])
          iv == NewInterval(S3, room, durationSeconds)
      IN [S3 EXCEPT !.intervals = @ \cup {iv},
                    !.roomTimers = Put(@, room, iv.id)]

\* ------------------------------------------------------------ turn scheduling

\* beginTurn that keeps the correct guessers of the turn that ended.
beginTurn_keepGuessers(S, room, drawer) ==
    LET S1 == initializeGame(S, room)
        S2 == [S1 EXCEPT !.roomGames[room].currentDrawer = drawer.id,
                         !.roomGames[room].currentWord = NullWord,
                         !.roomGames[room].gameStarted = TRUE]
    IN ToRoom(S2, room, [type |-> "turnStart", drawer |-> drawer])

\* Statements shared by every startNewTurn once the drawer is chosen: reset the
\* game for the turn, clear the round's correct guessers, emit turn:start.
beginTurn(S, room, drawer) ==
    LET S1 == initializeGame(S, room)
        S2 == [S1 EXCEPT !.roomGames[room].currentDrawer = drawer.id,
                         !.roomGames[room].currentWord = NullWord,
                         !.roomGames[room].gameStarted = TRUE]
        S3 == [S2 EXCEPT !.roomCorrectGuessers = Put(@, room, {})]
    IN ToRoom(S3, room, [type |-> "turnStart", drawer |-> drawer])

\* The while loop of startNewTurn: the next id of turnOrder, from currentIndex
\* on, whose user is still connected; at most users.length attempts.
RECURSIVE findNextDrawer(_, _, _, _)
findNextDrawer(users, turnOrder, currentIndex, attempts) ==
    IF attempts >= Len(users)
    THEN [found |-> FALSE, index |-> currentIndex]
    ELSE IF currentIndex < Len(turnOrder)
            /\ turnOrder[currentIndex + 1] \in UserIds(users)
         THEN [found |-> TRUE, index |-> currentIndex]
         ELSE findNextDrawer(users, turnOrder,
                             (currentIndex + 1) % Len(turnOrder), attempts + 1)

\* startNewTurn of the socket variant: next drawer in join order.
startNewTurn(S, room) ==
    IF ~Has(S.roomUsers, room) THEN Throw(S)
    ELSE
      LET users == S.roomUsers[room] IN
      IF Len(users) = 0 THEN S
      ELSE
        LET S1 == IF ~Has(S.roomTurnOrder, room)
                  THEN [S EXCEPT
                          !.roomTurnOrder =
                              Put(@, room, [i \in 1..Len(users) |-> users[i].id]),
                          !.roomTurnIndex = Put(@, room, 0)]
                  ELSE S
            currentIndex == IF Has(S1.roomTurnIndex, room)
                            THEN S1.roomTurnIndex[room] ELSE 0
            turnOrder == S1.roomTurnOrder[room]
            r == findNextDrawer(users, turnOrder, currentIndex, 0)
            nextDrawer == IF r.found THEN UserGet(users, turnOrder[r.index + 1])
                          ELSE users[1]
            S2 == [S1 EXCEPT !.roomTurnIndex =
                      Put(@, room, IF r.found
                                   THEN (r.index + 1) % Len(turnOrder)
                                   ELSE 1 % Len(users))]
            S3 == clearTimer(S2, room)
        IN beginTurn(S3, room, nextDrawer)

\* GameLogic.startNewTurn: users[Math.floor(Math.random() * users.length)];
\* rnd is the index drawn.
GameLogic_startNewTurn(S, room, rnd) ==
    IF ~Has(S.roomUsers, room) THEN Throw(S)
    ELSE
      LET users == S.roomUsers[room] IN
      IF Len(users) = 0 THEN S
      ELSE beginTurn(clearTimer(S, room), room, users[rnd + 1])

\* startNewTurn of src/index.js: random drawer, no timer to clear.
legacy_startNewTurn(S, room, rnd) ==
    IF ~Has(S.roomUsers, room) THEN Throw(S)
    ELSE
      LET users == S.roomUsers[room] IN
      IF Len(users) = 0 THEN S
      ELSE beginTurn(S, room, users[rnd + 1])

\* The values Math.floor(Math.random() * users.length) can take (0 where the
\* variant draws nothing).
RandomIndexes(S, room) ==
    IF variant = "socket" \/ Len(UsersOf(S, room)) = 0 THEN {0}
    ELSE 0..(Len(UsersOf(S, room)) - 1)

StartNewTurnOf(S, room, rnd) ==
    CASE variant = "socket" -> startNewTurn(S, room)
      [] variant = "grpc"   -> GameLogic_startNewTurn(S, room, rnd)
      [] OTHER              -> legacy_startNewTurn(S, room, rnd)

\* ------------------------------------------------------------------ scoring
\* The point table with the 25-point band ending one rank early.
pointsFor_shortBand(guessPosition) ==
    IF guessPosition = 1 THEN 100
    ELSE IF guessPosition = 2 THEN 75
    ELSE IF guessPosition = 3 THEN 50
    ELSE IF guessPosition <= 4 THEN 25
    ELSE 10

pointsFor(guessPosition) ==
    IF guessPosition = 1 THEN 100
    ELSE IF guessPosition = 2 THEN 75
    ELSE IF guessPosition = 3 THEN 50
    ELSE IF guessPosition <= 5 THEN 25
    ELSE 10

\* message.toLowerCase().trim() === game.currentWord.toLowerCase()
isCorrect(message, currentWord) ==
    trim(toLowerCase(message)) = toLowerCase(currentWord)

\* game && game.currentWord && game.currentDrawer !== id
isGuessable(S, room, id) ==
    /\ Has(S.roomGames, room)
    /\ Truthy(S.roomGames[room].currentWord)
    /\ S.roomGames[room].currentDrawer # id

\* if (!roomCorrectGuessers.has(room)) roomCorrectGuessers.set(room, new Set())
ensureGuessers(S, room) ==
    IF Has(S.roomCorrectGuessers, room) THEN S
    ELSE [S EXCEPT !.roomCorrectGuessers = Put(@, room, {})]

CorrectText == <<"Correct!">>

\* The award branch that announces the points without adding them.
awardGuess_noPoints(S, room, id) ==
    LET S1 == [S EXCEPT !.roomCorrectGuessers[room] = @ \cup {id}]
        guessPosition == Cardinality(S1.roomCorrectGuessers[room])
        points == pointsFor(guessPosition)
        S3 == updateRoomUsers(S1, room)
        S4 == ToRoom(S3, room,
                [type |-> "guessCorrect", user |-> id, points |-> points,
                 position |-> guessPosition,
                 totalCorrect |-> Cardinality(S1.roomCorrectGuessers[room])])
    IN ToRoom(S4, room,
         [type |-> "chatMessage", user |-> id, message |-> CorrectText,
          isCorrectGuess |-> TRUE, points |-> points,
          position |-> guessPosition])

\* The branch taken on a correct guess: record the guesser, rank, award,
\* broadcast roster, guess:correct and the tagged chat line.
awardGuess(S, room, id) ==
    LET S1 == [S EXCEPT !.roomCorrectGuessers[room] = @ \cup {id}]
        guessPosition == Cardinality(S1.roomCorrectGuessers[room])
        points == pointsFor(guessPosition)
        users == UsersOf(S1, room)
        S2 == IF id \in UserIds(users)
              THEN [S1 EXCEPT !.roomUsers[room] =
                      UserSet(users, [UserGet(users, id) EXCEPT
                                        !.points = @ + points])]
              ELSE S1
        S3 == updateRoomUsers(S2, room)
        S4 == ToRoom(S3, room,
                [type |-> "guessCorrect", user |-> id, points |-> points,
                 position |-> guessPosition,
                 totalCorrect |-> Cardinality(S1.roomCorrectGuessers[room])])
    IN ToRoom(S4, room,
         [type |-> "chatMessage", user |-> id, message |-> CorrectText,
          isCorrectGuess |-> TRUE, points |-> points,
          position |-> guessPosition])

relayChat(S, room, id, message) ==
    ToRoom(S, room, [type |-> "chatMessage", user |-> id, message |-> message,
                     isCorrectGuess |-> FALSE])

\* handleChatMessage without the check that the sender has not scored yet.
handleChatMessage_rescore(S, id, room, message) ==
    IF isGuessable(S, room, id)
    THEN LET S1 == ensureGuessers(S, room) IN
         IF isCorrect(message, S1.roomGames[room].currentWord)
         THEN awardGuess(S1, room, id)
         ELSE relayChat(S1, room, id, message)
    ELSE relayChat(S, room, id, message)

\* handleChatMessage that relays the text of a correct guess as well.
handleChatMessage_leak(S, id, room, message) ==
    IF isGuessable(S, room, id)
    THEN LET S1 == ensureGuessers(S, room) IN
         IF id \notin S1.roomCorrectGuessers[room]
            /\ isCorrect(message, S1.roomGames[room].currentWord)
         THEN relayChat(awardGuess(S1, room, id), room, id, message)
         ELSE relayChat(S1, room, id, message)
    ELSE relayChat(S, room, id, message)

\* socket.on("chat:message") / GameLogic.handleChatMessage
handleChatMessage(S, id, room, message) ==
    IF isGuessable(S, room, id)
    THEN LET S1 == ensureGuessers(S, room) IN
         IF id \notin S1.roomCorrectGuessers[room]
            /\ isCorrect(message, S1.roomGames[room].currentWord)
         THEN awardGuess(S1, room, id)
         ELSE relayChat(S1, room, id, message)
    ELSE relayChat(S, room, id, message)

\* socket.on("word:guess") of src/index.js: nothing is relayed
wordGuess(S, id, room, guess) ==
    IF ~isGuessable(S, room, id) THEN S
    ELSE LET S1 == ensureGuessers(S, room) IN
         IF id \in S1.roomCorrectGuessers[room] THEN S1
         ELSE IF isCorrect(guess, S1.roomGames[room].currentWord)
              THEN awardGuess(S1, room, id)
              ELSE S1

\* ------------------------------------------------------- the other handlers
\* handleWordSelect without the check that the caller is the drawer.
handleWordSelect_anyone(S, id, room, word) ==
    IF ~Has(S.roomGames, room) THEN S
    ELSE
      LET S1 == [S EXCEPT !.roomGames[room].currentWord = word]
          S2 == ToRoom(S1, room,
                  [type |-> "wordSelected", word |-> word, drawer |-> id])
      IN IF variant = "legacy" THEN S2 ELSE startTimer(S2, room, RoundSeconds)

\* handleWordSelect that lets anybody select while the room has no drawer.
handleWordSelect_noDrawer(S, id, room, word) ==
    IF ~Has(S.roomGames, room)
       \/ (S.roomGames[room].currentDrawer # Null
             /\ S.roomGames[room].currentDrawer # id)
    THEN S
    ELSE
      LET S1 == [S EXCEPT !.roomGames[room].currentWord = word]
          S2 == ToRoom(S1, room,
                  [type |-> "wordSelected", word |-> word, drawer |-> id])
      IN IF variant = "legacy" THEN S2 ELSE startTimer(S2, room, RoundSeconds)

\* handleWordSelect that announces the word and starts no timer.
handleWordSelect_noTimer(S, id, room, word) ==
    IF ~Has(S.roomGames, room) \/ S.roomGames[room].currentDrawer # id THEN S
    ELSE
      LET S1 == [S EXCEPT !.roomGames[room].currentWord = word]
      IN ToRoom(S1, room,
                [type |-> "wordSelected", word |-> word, drawer |-> id])

\* handleWordSelect that empties the round's correct guessers with the word.
handleWordSelect_resetGuessers(S, id, room, word) ==
    IF ~Has(S.roomGames, room) \/ S.roomGames[room].currentDrawer # id THEN S
    ELSE
      LET S1 == [S EXCEPT !.roomGames[room].currentWord = word,
                          !.roomCorrectGuessers = Put(@, room, {})]
          S2 == ToRoom(S1, room,
                  [type |-> "wordSelected", word |-> word, drawer |-> id])
      IN IF variant = "legacy" THEN S2 ELSE startTimer(S2, room, RoundSeconds)

\* socket.on("word:select") / GameLogic.handleWordSelect
handleWordSelect(S, id, room, word) ==
    IF ~Has(S.roomGames, room) \/ S.roomGames[room].currentDrawer # id THEN S
    ELSE
      LET S1 == [S EXCEPT !.roomGames[room].currentWord = word]
          S2 == ToRoom(S1, room,
                  [type |-> "wordSelected", word |-> word, drawer |-> id])
      IN IF variant = "legacy" THEN S2 ELSE startTimer(S2, room, RoundSeconds)

\* handleGameStart without the check that the game has not started yet.
handleGameStart_restart(S, id, room, rnd) ==
    LET S1 == initializeGame(S, room) IN
    IF ~Has(S1.roomUsers, room) THEN Throw(S1)
    ELSE
      LET users == S1.roomUsers[room]
          isRoomCreator == Len(users) > 0 /\ users[1].id = id
      IN IF ~isRoomCreator THEN S1 ELSE StartNewTurnOf(S1, room, rnd)

\* socket.on("game:start") / GameLogic.handleGameStart
handleGameStart(S, id, room, rnd) ==
    LET S1 == initializeGame(S, room) IN
    IF S1.roomGames[room].gameStarted THEN S1
    ELSE IF ~Has(S1.roomUsers, room) THEN Throw(S1)
    ELSE
      LET users == S1.roomUsers[room]
          isRoomCreator == Len(users) > 0 /\ users[1].id = id
      IN IF ~isRoomCreator THEN S1 ELSE StartNewTurnOf(S1, room, rnd)

\* io.on("connection")
connection(S, id, raw) ==
    LET room == getRoom(raw)
        S1 == IF ~Has(S.roomUsers, room)
              THEN [S EXCEPT !.roomUsers = Put(@, room, <<>>)] ELSE S
        wasEmpty == Len(S1.roomUsers[room]) = 0
        S2 == [S1 EXCEPT !.roomUsers[room] = UserSet(@, getUserInfo(id)),
                         !.conn[id] = [status |-> "open", room |-> room]]
        S3 == IF Has(S2.roomTurnOrder, room) /\ ~wasEmpty
              THEN [S2 EXCEPT !.roomTurnOrder[room] = Append(@, id)]
              ELSE S2
        S4 == Emit(S3, room, {id}, [type |-> "usersUpdate", users |-> S3.roomUsers[room]])
    IN ToOthers(S4, room, id, [type |-> "userJoined", user |-> id])

\* socket.on("disconnect"); socket.io has taken the socket out of its rooms
\* before the handler runs.
disconnect(S, id) ==
    LET room == S.conn[id].room
        S0 == [S EXCEPT !.conn[id].status = "closed"]
    IN IF ~Has(S0.roomUsers, room) THEN S0
       ELSE
         LET S1 == [S0 EXCEPT !.roomUsers[room] = UserDelete(@, id)]
             S2 == IF Len(S1.roomUsers[room]) = 0
                   THEN [S1 EXCEPT !.roomUsers = Del(@, room)] ELSE S1
             S3 == ToOthers(S2, room, id, [type |-> "userLeft", id |-> id])
         IN updateRoomUsers(S3, room)

\* The callback reading the clock of the previous tick (one second late).
timerCallback_stale(S, iv, rnd) ==
    LET now == iv.now + 1
        endTime == IF Has(S.roomGames, iv.room)
                   THEN S.roomGames[iv.room].timerEndTime ELSE NullTime
        remaining == IF endTime = NullTime THEN 0 ELSE Max(0, endTime - iv.now)
        S1 == [S EXCEPT !.intervals = (@ \ {iv}) \cup {[iv EXCEPT !.now = now]}]
        S2 == ToRoom(S1, iv.room, [type |-> "timerUpdate",
                                   remaining |-> remaining, total |-> iv.total])
    IN IF remaining <= 0
       THEN StartNewTurnOf(clearTimer(S2, iv.room), iv.room, rnd)
       ELSE S2

\* The setInterval callback of startTimer, one second after the previous one.
timerCallback(S, iv, rnd) ==
    LET now == iv.now + 1
        endTime == IF Has(S.roomGames, iv.room)
                   THEN S.roomGames[iv.room].timerEndTime ELSE NullTime
        remaining == IF endTime = NullTime THEN 0 ELSE Max(0, endTime - now)
        S1 == [S EXCEPT !.intervals = (@ \ {iv}) \cup {[iv EXCEPT !.now = now]}]
        S2 == ToRoom(S1, iv.room, [type |-> "timerUpdate",
                                   remaining |-> remaining, total |-> iv.total])
    IN IF remaining <= 0
       THEN StartNewTurnOf(clearTimer(S2, iv.room), iv.room, rnd)
       ELSE S2

\* ------------------------------------------------------ GameLogic membership
\* GameLogic.handleJoin
handleJoin(S, id, raw) ==
    LET room == getRoom(raw)
        S1 == IF ~Has(S.roomUsers, room)
              THEN [S EXCEPT !.roomUsers = Put(@, room, <<>>)] ELSE S
        S2 == IF ~ConnsHas(S1.roomConnections, room)
              THEN [S1 EXCEPT !.roomConnections = ConnsSet(@, room, {})] ELSE S1
        S3 == [S2 EXCEPT
                 !.roomUsers[room] = UserSet(@, getUserInfo(id)),
                 !.roomConnections =
                     ConnsSet(@, room, ConnsGet(@, room) \cup {id})]
        S4 == Emit(S3, room, {id}, [type |-> "usersUpdate", users |-> S3.roomUsers[room]])
    IN broadcastToRoom(S4, room, [type |-> "userJoined", user |-> id], id)

\* handleLeave that purges an emptied room without clearing its timer.
handleLeave_keepTimer(S, id, room) ==
    IF ~Has(S.roomUsers, room) THEN S
    ELSE
      LET S1 == [S EXCEPT !.roomUsers[room] = UserDelete(@, id)]
          S2 == IF ConnsHas(S1.roomConnections, room)
                THEN [S1 EXCEPT !.roomConnections =
                        ConnsSet(@, room, ConnsGet(@, room) \ {id})]
                ELSE S1
          S3 == IF Len(S2.roomUsers[room]) = 0
                THEN [S2 EXCEPT
                        !.roomUsers = Del(@, room),
                        !.roomConnections = ConnsDelete(@, room),
                        !.roomGames = Del(@, room),
                        !.roomCorrectGuessers = Del(@, room)]
                ELSE S2
          S4 == broadcastToRoom(S3, room, [type |-> "userLeft", id |-> id], Null)
      IN updateRoomUsers(S4, room)

\* GameLogic.handleLeave
handleLeave(S, id, room) ==
    IF ~Has(S.roomUsers, room) THEN S
    ELSE
      LET S1 == [S EXCEPT !.roomUsers[room] = UserDelete(@, id)]
          S2 == IF ConnsHas(S1.roomConnections, room)
                THEN [S1 EXCEPT !.roomConnections =
                        ConnsSet(@, room, ConnsGet(@, room) \ {id})]
                ELSE S1
          S3 == IF Len(S2.roomUsers[room]) = 0
                THEN clearTimer(
                       [S2 EXCEPT
                          !.roomUsers = Del(@, room),
                          !.roomConnections = ConnsDelete(@, room),
                          !.roomGames = Del(@, room),
                          !.roomCorrectGuessers = Del(@, room)], room)
                ELSE S2
          S4 == broadcastToRoom(S3, room, [type |-> "userLeft", id |-> id], Null)
      IN updateRoomUsers(S4, room)

\* GameLogic.cleanup: leave the first room whose connection set holds the call
cleanup(S, id) ==
    LET rc == S.roomConnections
        hits == {i \in 1..Len(rc) : id \in rc[i].calls}
    IN IF hits = {} THEN S
       ELSE handleLeave(S, id, rc[CHOOSE i \in hits : \A j \in hits : i <= j].room)

\* --------------------------------------------------------- drawing relays
\* socket.on("segment") / GameLogic.handleSegment: the payload goes to the
\* others as it came (GameLogic adds the sender's userId beside it).
handleSegment(S, id, room, segment) ==
    ToOthers(S, room, id,
             IF variant = "grpc"
             THEN [type |-> "segment", user |-> id, segment |-> segment]
             ELSE [type |-> "segment", segment |-> segment])

\* socket.on("clear") / GameLogic.handleClear
handleClear(S, id, room) == ToOthers(S, room, id, [type |-> "clear"])

\* socket.on("cursor") / GameLogic.handleCursor
handleCursor(S, id, room, cursor) ==
    ToOthers(S, room, id, [type |-> "cursor", user |-> id, cursor |-> cursor])

\* ------------------------------------------------------------------ actions
TurnStarts(S) ==
    Cardinality({i \in 1..Len(S.emitted) : S.emitted[i].ev.type = "turnStart"})

\* History: how often each id was awarded points in each room since the room's
\* last turn start (read off the guessCorrect and turnStart events emitted).
AwardsAfter(S) ==
    [p \in DOMAIN awards |->
        IF \E i \in 1..Len(S.emitted) :
              S.emitted[i].ev.type = "turnStart" /\ S.emitted[i].room = p[1]
        THEN 0
        ELSE awards[p] + Cardinality({i \in 1..Len(S.emitted) :
                            /\ S.emitted[i].ev.type = "guessCorrect"
                            /\ S.emitted[i].room = p[1]
                            /\ S.emitted[i].ev.user = p[2]})]

\* The handler's effects become the next state.  An exception leaving a socket
\* handler or a timer callback is uncaught and ends the process; the data
\* handler of grpc-server.js catches and logs it.
Commit(S, uncaught, op) ==
    /\ turns + TurnStarts(S) <= MaxTurns
    /\ turns' = turns + TurnStarts(S)
    /\ conn' = S.conn
    /\ roomUsers' = S.roomUsers
    /\ roomGames' = S.roomGames
    /\ roomCorrectGuessers' = S.roomCorrectGuessers
    /\ roomTimers' = S.roomTimers
    /\ intervals' = S.intervals
    /\ roomTurnOrder' = S.roomTurnOrder
    /\ roomTurnIndex' = S.roomTurnIndex
    /\ roomConnections' = S.roomConnections
    /\ emitted' = S.emitted
    /\ crashed' = (crashed \/ (S.thrown /\ uncaught))
    /\ last' = op
    /\ awards' = AwardsAfter(S)
    /\ UNCHANGED variant

IsSocket == variant \in {"legacy", "socket"}

Open(c) == ~crashed /\ conn[c].status = "open"

\* Connection ids are opaque and never reused: the k-th connection to arrive
\* is given id k.
IsNext(c) ==
    /\ ~crashed /\ conn[c].status = "new"
    /\ \A d \in DOMAIN conn : d < c => conn[d].status # "new"

SocketConnection(c, raw) ==
    /\ IsSocket /\ IsNext(c)
    /\ Commit(connection(Store, c, raw), TRUE, "join")

SocketDisconnect(c) ==
    /\ IsSocket /\ Open(c)
    /\ Commit(disconnect(Store, c), TRUE, "leave")

SocketWordSelect(c, word) ==
    /\ IsSocket /\ Open(c)
    /\ Commit(handleWordSelect(Store, c, conn[c].room, word), TRUE,
              "wordSelect")

SocketGameStart(c) ==
    /\ IsSocket /\ Open(c)
    /\ \E rnd \in RandomIndexes(Store, conn[c].room) :
         Commit(handleGameStart(Store, c, conn[c].room, rnd), TRUE,
                "gameStart")

\* chat:message of src/index.js relays every message
SocketChatMessage(c, text) ==
    /\ IsSocket /\ Open(c)
    /\ Commit(IF variant = "legacy"
              THEN relayChat(Store, conn[c].room, c, text)
              ELSE handleChatMessage(Store, c, conn[c].room, text), TRUE,
              "chatMessage")

LegacyWordGuess(c, text) ==
    /\ variant = "legacy" /\ Open(c)
    /\ Commit(wordGuess(Store, c, conn[c].room, text), TRUE,
              "wordGuess")

\* connect(call) of src/grpc-server.js: a fresh userId, no engine state touched
GrpcConnect(c) ==
    /\ variant = "grpc" /\ IsNext(c)
    /\ Commit([Store EXCEPT !.conn[c].status = "open"], TRUE, "connect")

GrpcJoin(c, raw) ==
    /\ variant = "grpc" /\ Open(c)
    /\ Commit(handleJoin(Store, c, raw), FALSE, "join")

GrpcWordSelect(c, raw, word) ==
    /\ variant = "grpc" /\ Open(c)
    /\ Commit(handleWordSelect(Store, c, raw, word), FALSE,
              "wordSelect")

GrpcGameStart(c, raw) ==
    /\ variant = "grpc" /\ Open(c)
    /\ \E rnd \in RandomIndexes(Store, raw) :
         Commit(handleGameStart(Store, c, raw, rnd), FALSE,
                "gameStart")

GrpcChatMessage(c, raw, text) ==
    /\ variant = "grpc" /\ Open(c)
    /\ Commit(handleChatMessage(Store, c, raw, text), FALSE,
              "chatMessage")

\* call.on('end') / call.on('error')
GrpcEnd(c) ==
    /\ variant = "grpc" /\ Open(c)
    /\ Commit([cleanup(Store, c) EXCEPT !.conn[c].status = "closed"], TRUE,
              "leave")

TimerTick(iv) ==
    /\ ~crashed
    /\ \E rnd \in RandomIndexes(Store, iv.room) :
         Commit(timerCallback(Store, iv, rnd), TRUE, "tick")

SocketSegment(c, segment) ==
    /\ IsSocket /\ Open(c)
    /\ Commit(handleSegment(Store, c, conn[c].room, segment), TRUE, "segment")

SocketClear(c) ==
    /\ IsSocket /\ Open(c)
    /\ Commit(handleClear(Store, c, conn[c].room), TRUE, "clear")

SocketCursor(c, cursor) ==
    /\ IsSocket /\ Open(c)
    /\ Commit(handleCursor(Store, c, conn[c].room, cursor), TRUE, "cursor")

GrpcSegment(c, raw, segment) ==
    /\ variant = "grpc" /\ Open(c)
    /\ Commit(handleSegment(Store, c, raw, segment), FALSE, "segment")

GrpcClear(c, raw) ==
    /\ variant = "grpc" /\ Open(c)
    /\ Commit(handleClear(Store, c, raw), FALSE, "clear")

GrpcCursor(c, raw, cursor) ==
    /\ variant = "grpc" /\ Open(c)
    /\ Commit(handleCursor(Store, c, raw, cursor), FALSE, "cursor")

\* The stream of a call fails: from here on call.write throws, and the call
\* sends nothing more; its 'error' event has not been handled yet.
GrpcBreak(c) ==
    /\ variant = "grpc" /\ Open(c)
    /\ Commit([Store EXCEPT !.conn[c].status = "broken"], TRUE, "break")

\* call.on('error') of a failed stream
GrpcError(c) ==
    /\ variant = "grpc" /\ ~crashed /\ conn[c].status = "broken"
    /\ Commit([cleanup(Store, c) EXCEPT !.conn[c].status = "closed"], TRUE,
              "leave")

Init ==
    /\ variant \in Variants
    /\ conn = [c \in ConnIds |->
                 [status |-> "new", room |-> NoRoom]]
    /\ roomUsers = EmptyMap
    /\ roomGames = EmptyMap
    /\ roomCorrectGuessers = EmptyMap
    /\ roomTimers = EmptyMap
    /\ intervals = {}
    /\ roomTurnOrder = EmptyMap
    /\ roomTurnIndex = EmptyMap
    /\ roomConnections = <<>>
    /\ emitted = <<>>
    /\ crashed = FALSE
    /\ turns = 0
    /\ last = "init"
    /\ awards = [p \in RawRooms \X ConnIds |-> 0]

Next ==
    \/ \E c \in ConnIds, raw \in RawRooms : SocketConnection(c, raw)
    \/ \E c \in ConnIds : SocketDisconnect(c)
    \/ \E c \in ConnIds, word \in Words : SocketWordSelect(c, word)
    \/ \E c \in ConnIds : SocketGameStart(c)
    \/ \E c \in ConnIds, text \in Texts : SocketChatMessage(c, text)
    \/ \E c \in ConnIds, text \in Texts : LegacyWordGuess(c, text)
    \/ \E c \in ConnIds : GrpcConnect(c)
    \/ \E c \in ConnIds, raw \in RawRooms : GrpcJoin(c, raw)
    \/ \E c \in ConnIds, raw \in RawRooms, word \in Words : GrpcWordSelect(c, raw, word)
    \/ \E c \in ConnIds, raw \in RawRooms : GrpcGameStart(c, raw)
    \/ \E c \in ConnIds, raw \in RawRooms, text \in Texts : GrpcChatMessage(c, raw, text)
    \/ \E c \in ConnIds : GrpcEnd(c)
    \/ \E iv \in intervals : TimerTick(iv)

Spec == Init /\ [][Next]_vars

\* A scheduled interval keeps firing: setInterval calls back every second
\* until it is cleared.
TimersFire == WF_vars(\E iv \in intervals : TimerTick(iv))

SpecLive == Init /\ [][Next]_vars /\ TimersFire

\* ------------------------------------------------ a full room in one turn
\* One drawer and NumGuessers guessers, connection ids in order of arrival.
ScoringIds == 1..(NumGuessers + 1)

EmptyStore(ids) ==
    [conn |-> [c \in ids |-> [status |-> "new", room |-> NoRoom]],
     roomUsers |-> EmptyMap, roomGames |-> EmptyMap,
     roomCorrectGuessers |-> EmptyMap, roomTimers |-> EmptyMap,
     intervals |-> {}, roomTurnOrder |-> EmptyMap,
     roomTurnIndex |-> EmptyMap, roomConnections |-> <<>>,
     emitted |-> <<>>, thrown |-> FALSE]

\* The store as the next handler finds it.
Handled(S) == [S EXCEPT !.emitted = <<>>]

\* Connections 1..n have arrived and joined the default room, in this order.
RECURSIVE JoinAll(_, _)
JoinAll(S, n) ==
    IF n = 0 THEN S
    ELSE LET P == Handled(JoinAll(S, n - 1)) IN
         IF variant = "grpc"
         THEN handleJoin([P EXCEPT !.conn[n].status = "open"], n, NoRoom)
         ELSE connection(P, n, NoRoom)

\* The room after its creator's gameStart.
RoomStarted(rnd) ==
    handleGameStart(Handled(JoinAll(EmptyStore(ScoringIds), NumGuessers + 1)),
                    1, DefaultRoom, rnd)

InitScoring ==
    /\ variant \in Variants
    /\ LET S == RoomStarted(0) IN
       /\ conn = S.conn
       /\ roomUsers = S.roomUsers
       /\ roomGames = S.roomGames
       /\ roomCorrectGuessers = S.roomCorrectGuessers
       /\ roomTimers = S.roomTimers
       /\ intervals = S.intervals
       /\ roomTurnOrder = S.roomTurnOrder
       /\ roomTurnIndex = S.roomTurnIndex
       /\ roomConnections = S.roomConnections
       /\ emitted = S.emitted
       /\ crashed = S.thrown
       /\ turns = TurnStarts(S)
    /\ last = "gameStart"
    /\ awards = [p \in RawRooms \X ScoringIds |-> 0]

NextScoring ==
    \/ \E c \in ScoringIds, word \in Words : SocketWordSelect(c, word)
    \/ \E c \in ScoringIds, text \in Texts : SocketChatMessage(c, text)
    \/ \E c \in ScoringIds, text \in Texts : LegacyWordGuess(c, text)
    \/ \E c \in ScoringIds, word \in Words : GrpcWordSelect(c, DefaultRoom, word)
    \/ \E c \in ScoringIds, text \in Texts : GrpcChatMessage(c, DefaultRoom, text)

SpecScoring == InitScoring /\ [][NextScoring]_vars

\* The variables start as the store S a handler has left behind.
StartsAs(S, ids, op) ==
    /\ conn = S.conn
    /\ roomUsers = S.roomUsers
    /\ roomGames = S.roomGames
    /\ roomCorrectGuessers = S.roomCorrectGuessers
    /\ roomTimers = S.roomTimers
    /\ intervals = S.intervals
    /\ roomTurnOrder = S.roomTurnOrder
    /\ roomTurnIndex = S.roomTurnIndex
    /\ roomConnections = S.roomConnections
    /\ emitted = S.emitted
    /\ crashed = S.thrown
    /\ turns = TurnStarts(S)
    /\ last = op
    /\ awards = [p \in RawRooms \X ids |-> 0]

\* ------------------------------------------- two participants, any text
\* The word of the scenario of the specification.
Apple == <<"a", "p", "p", "l", "e">>

Letters == {"a", "A", "b", " "}

\* The non-empty strings a client can send as a word or as a chat text.
GuessTexts ==
    UNION {[1..n -> Letters] : n \in 1..MaxTextLen} \cup {Apple}

\* A, the creator, and B.
GuessIds == {1, 2}

\* A joins, then B joins.
BothJoined == Handled(JoinAll(EmptyStore(GuessIds), 2))

InitGuess ==
    /\ variant \in Variants
    /\ \E rnd \in RandomIndexes(BothJoined, DefaultRoom) :
         StartsAs(handleGameStart(BothJoined, 1, DefaultRoom, rnd),
                  GuessIds, "gameStart")

NextGuess ==
    \/ \E c \in GuessIds, word \in GuessTexts : SocketWordSelect(c, word)
    \/ \E c \in GuessIds, text \in GuessTexts : SocketChatMessage(c, text)
    \/ \E c \in GuessIds, text \in GuessTexts : LegacyWordGuess(c, text)
    \/ \E c \in GuessIds, word \in GuessTexts : GrpcWordSelect(c, DefaultRoom, word)
    \/ \E c \in GuessIds, text \in GuessTexts : GrpcChatMessage(c, DefaultRoom, text)

SpecGuess == InitGuess /\ [][NextGuess]_vars

\* ------------------------------------------------ membership of two rooms
OtherRoom == "r1"

\* The room names a join can carry: none (the default room) or "r1".
JoinRooms == {NoRoom, OtherRoom}

JoinerIds == 1..NumJoiners

InitRooms ==
    /\ variant \in Variants
    /\ StartsAs(EmptyStore(JoinerIds), JoinerIds, "init")

NextRooms ==
    \/ \E c \in JoinerIds, raw \in JoinRooms : SocketConnection(c, raw)
    \/ \E c \in JoinerIds : SocketDisconnect(c)
    \/ \E c \in JoinerIds : GrpcConnect(c)
    \/ \E c \in JoinerIds, raw \in JoinRooms : GrpcJoin(c, raw)
    \/ \E c \in JoinerIds : GrpcEnd(c)

SpecRooms == InitRooms /\ [][NextRooms]_vars

\* --------------------------------------- round-robin turns in one room
PlayerIds == 1..NumPlayers

\* The word every drawer of this specification selects.
TurnWord == <<"a">>

InitTurns ==
    /\ variant = "socket"
    /\ StartsAs(EmptyStore(PlayerIds), PlayerIds, "init")

NextTurns ==
    \/ \E c \in PlayerIds : SocketConnection(c, NoRoom)
    \/ \E c \in PlayerIds : SocketDisconnect(c)
    \/ \E c \in PlayerIds : SocketGameStart(c)
    \/ \E c \in PlayerIds : SocketWordSelect(c, TurnWord)
    \/ \E iv \in intervals : TimerTick(iv)

SpecTurns == InitTurns /\ [][NextTurns]_vars

\* ------------------------------------ drawing relays and failing streams
\* The payloads of segment and cursor events, opaque to the engine.
Segments == {[x0 |-> 0, y0 |-> 0, x1 |-> 1, y1 |-> 1],
             [x0 |-> 1, y0 |-> 1, x1 |-> 0, y1 |-> 0]}

Positions == {[x |-> 0, y |-> 1]}

InitRelay ==
    /\ variant \in Variants
    /\ StartsAs(EmptyStore(JoinerIds), JoinerIds, "init")

NextRelay ==
    \/ \E c \in JoinerIds : SocketConnection(c, NoRoom)
    \/ \E c \in JoinerIds : SocketDisconnect(c)
    \/ \E c \in JoinerIds : SocketGameStart(c)
    \/ \E c \in JoinerIds, segment \in Segments : SocketSegment(c, segment)
    \/ \E c \in JoinerIds : SocketClear(c)
    \/ \E c \in JoinerIds, cursor \in Positions : SocketCursor(c, cursor)
    \/ \E c \in JoinerIds : GrpcConnect(c)
    \/ \E c \in JoinerIds : GrpcJoin(c, NoRoom)
    \/ \E c \in JoinerIds : GrpcEnd(c)
    \/ \E c \in JoinerIds : GrpcBreak(c)
    \/ \E c \in JoinerIds : GrpcError(c)
    \/ \E c \in JoinerIds : GrpcGameStart(c, DefaultRoom)
    \/ \E c \in JoinerIds, raw \in RawRooms, segment \in Segments :
          GrpcSegment(c, raw, segment)
    \/ \E c \in JoinerIds, raw \in RawRooms : GrpcClear(c, raw)
    \/ \E c \in JoinerIds, raw \in RawRooms, cursor \in Positions :
          GrpcCursor(c, raw, cursor)

SpecRelay == InitRelay /\ [][NextRelay]_vars

\* ------------------------------------------------- games in two rooms
GameRooms == {DefaultRoom, OtherRoom}

\* Connection c has arrived and joined the room of key raw.
Joined(S, c, raw) ==
    IF variant = "grpc"
    THEN handleJoin([Handled(S) EXCEPT !.conn[c].status = "open"], c, raw)
    ELSE connection(Handled(S), c, raw)

\* The timer of `room` has called back n times, n less than the round's
\* seconds: the callbacks before the last have advanced its clock only.
Ticked(S, room, n) ==
    IF ~Has(S.roomTimers, room) THEN S
    ELSE LET iv == CHOOSE t \in S.intervals : t.id = S.roomTimers[room]
             before == [iv EXCEPT !.now = n - 1]
         IN timerCallback(
              [Handled(S) EXCEPT !.intervals = (@ \ {iv}) \cup {before}],
              before, 0)

\* Connection 1 alone in the default room and connection 2 alone in "r1",
\* each the drawer of a round of its room that has two seconds left.
RoundsEnding ==
    LET J == Joined(Joined(EmptyStore(JoinerIds), 1, NoRoom), 2, OtherRoom)
        G1 == handleGameStart(Handled(J), 1, DefaultRoom, 0)
        G2 == handleGameStart(Handled(G1), 2, OtherRoom, 0)
        W1 == handleWordSelect(Handled(G2), 1, DefaultRoom, TurnWord)
        W2 == handleWordSelect(Handled(W1), 2, OtherRoom, TurnWord)
    IN Ticked(Ticked(W2, DefaultRoom, RoundSeconds - 2),
              OtherRoom, RoundSeconds - 2)

InitTwoRooms ==
    /\ variant \in Variants
    /\ StartsAs(RoundsEnding, JoinerIds,
                IF variant = "legacy" THEN "wordSelect" ELSE "tick")

NextTwoRooms ==
    \/ \E c \in JoinerIds : SocketConnection(c, OtherRoom)
    \/ \E c \in JoinerIds : SocketDisconnect(c)
    \/ \E c \in JoinerIds : SocketGameStart(c)
    \/ \E c \in JoinerIds, text \in Texts : SocketChatMessage(c, text)
    \/ \E c \in JoinerIds, text \in Texts : LegacyWordGuess(c, text)
    \/ \E c \in JoinerIds : GrpcConnect(c)
    \/ \E c \in JoinerIds : GrpcJoin(c, OtherRoom)
    \/ \E c \in JoinerIds, raw \in GameRooms : GrpcGameStart(c, raw)
    \/ \E c \in JoinerIds, raw \in GameRooms, text \in Texts :
          GrpcChatMessage(c, raw, text)
    \/ \E c \in JoinerIds : GrpcEnd(c)
    \/ \E iv \in intervals : TimerTick(iv)

SpecTwoRooms == InitTwoRooms /\ [][NextTwoRooms]_vars

\* ============================================================== properties
Roster(r) == IF Has(roomUsers, r) THEN roomUsers[r] ELSE <<>>

RosterEmpty(r) == Len(Roster(r)) = 0

TimersOf(r) == {iv \in intervals : iv.room = r}

\* No per-room state is left for r.
NoRoomState(r) ==
    /\ ~Has(roomGames, r)
    /\ ~Has(roomCorrectGuessers, r)
    /\ ~Has(roomTimers, r) /\ TimersOf(r) = {}
    /\ ~Has(roomTurnOrder, r) /\ ~Has(roomTurnIndex, r)

\* The per-room entries r has now are still there after the step.
RoomStateKept(r) ==
    /\ Has(roomGames, r) => Has(roomGames', r)
    /\ Has(roomCorrectGuessers, r) => Has(roomCorrectGuessers', r)
    /\ Has(roomTurnOrder, r) => Has(roomTurnOrder', r)
    /\ Has(roomTurnIndex, r) => Has(roomTurnIndex', r)

\* C1: a step that takes a room's roster from non-empty to empty leaves the
\* room with no game state, no timer, no turn order or cursor and no
\* correct-guesser set; a step that leaves the roster non-empty removes none
\* of them.
C1_PurgedExactlyWhenEmptied ==
    [][\A r \in RawRooms :
         /\ (~RosterEmpty(r) /\ RosterEmpty(r)') => NoRoomState(r)'
         /\ (~RosterEmpty(r) /\ ~RosterEmpty(r)') => RoomStateKept(r)]_vars

\* The state a room is in when its first participant ever has just joined.
FreshRoom(r) ==
    /\ Has(roomGames, r) =>
         /\ ~roomGames[r].gameStarted
         /\ roomGames[r].currentDrawer = Null
         /\ roomGames[r].currentWord = NullWord
    /\ Has(roomCorrectGuessers, r) => roomCorrectGuessers[r] = {}
    /\ ~Has(roomTimers, r) /\ TimersOf(r) = {}
    /\ ~Has(roomTurnOrder, r) /\ ~Has(roomTurnIndex, r)

\* C2: a join into a room whose roster is empty (never used, or emptied
\* before) leaves the room as a first-ever join does: not started, no drawer,
\* no word, no timer, no turn order, so that the joiner is the creator and
\* the turn order is seeded from the participants present at their gameStart.
C2_RejoinIsFirstJoin ==
    [][\A r \in RawRooms :
         (RosterEmpty(r) /\ ~RosterEmpty(r)') => FreshRoom(r)']_vars

\* C3: a scheduled timer belongs to a room whose roster is non-empty.
C3_TimerImpliesRoster ==
    \A iv \in intervals : ~RosterEmpty(iv.room)

\* C4: every scheduled timer is the one its room has registered, so a room
\* never has two, and a superseded timer is no longer scheduled (it can emit
\* no timerUpdate and start no turn).
C4_OneTimerPerRoom ==
    /\ \A iv \in intervals :
         Has(roomTimers, iv.room) /\ roomTimers[iv.room] = iv.id
    /\ \A iv1, iv2 \in intervals : iv1.room = iv2.room => iv1 = iv2

\* The drawer has selected a word again after a guess was scored in the same
\* turn: the timer of the first selection was superseded.
C4_Witness ==
    /\ last = "wordSelect" /\ emitted # <<>>
    /\ \E r \in RawRooms :
         /\ TimersOf(r) # {}
         /\ Has(roomCorrectGuessers, r) /\ roomCorrectGuessers[r] # {}

EventTypes == [i \in 1..Len(emitted) |-> emitted[i].ev.type]

IsTimerUpdate(e, room, remaining, total) ==
    /\ e.room = room
    /\ e.ev.type = "timerUpdate"
    /\ e.ev.remaining = remaining
    /\ e.ev.total = total

\* C5: a timer being scheduled emits remaining = total; each of its ticks
\* emits a remaining one less than the value emitted before; the tick that
\* emits 0 leaves the room without a timer and runs startNewTurn once (one
\* turnStart if the room has a roster, the TypeError of C3 if it has none).
C5_Countdown ==
    [][/\ \A iv \in intervals' \ intervals :
            iv.now = 0 =>
              /\ emitted' # <<>>
              /\ IsTimerUpdate(emitted'[Len(emitted')], iv.room, iv.total, iv.total)
       /\ \A iv \in intervals :
            TimerTick(iv) =>
              LET before == iv.total - iv.now IN
              /\ before >= 1
              /\ IsTimerUpdate(emitted'[1], iv.room, before - 1, iv.total)
              /\ before - 1 > 0 =>
                   /\ Len(emitted') = 1
                   /\ TimersOf(iv.room)' = {[iv EXCEPT !.now = @ + 1]}
              /\ before - 1 = 0 =>
                   /\ TimersOf(iv.room)' = {} /\ ~Has(roomTimers', iv.room)
                   /\ ~RosterEmpty(iv.room) =>
                        /\ EventTypes' = <<"timerUpdate", "turnStart">>
                        /\ emitted'[2].room = iv.room
                        /\ turns' = turns + 1
                   /\ RosterEmpty(iv.room) =>
                        /\ EventTypes' = <<"timerUpdate">>
                        /\ crashed']_vars

\* A countdown has run out and started the next turn.
C5_Witness ==
    /\ last = "tick"
    /\ Len(emitted) = 2
    /\ emitted[1].ev.type = "timerUpdate" /\ emitted[1].ev.remaining = 0
    /\ emitted[2].ev.type = "turnStart"

EngineUnchanged ==
    /\ UNCHANGED <<roomUsers, roomGames, roomCorrectGuessers, roomTimers,
                   intervals, roomTurnOrder, roomTurnIndex, roomConnections,
                   crashed>>
    /\ emitted' = <<>>

\* The caller is not the first participant of r's roster, or r has started.
StartRejected(c, r) ==
    \/ RosterEmpty(r)
    \/ Roster(r)[1].id # c
    \/ Has(roomGames, r) /\ roomGames[r].gameStarted

\* C6: a gameStart by a caller who is not first in the roster, or in a room
\* that has started, changes no state (creates no game-state entry, chooses
\* no drawer, creates no turn order) and emits nothing.
C6_RejectedStartChangesNothing ==
    [][\A c \in ConnIds :
         /\ (SocketGameStart(c) /\ StartRejected(c, conn[c].room))
               => EngineUnchanged
         /\ \A raw \in RawRooms :
              (GrpcGameStart(c, raw) /\ StartRejected(c, raw))
                 => EngineUnchanged]_vars

IsDrawer(c, r) == Has(roomGames, r) /\ roomGames[r].currentDrawer = c

\* C7: a wordSelect by a connection that is not the room's current drawer
\* emits nothing, starts no timer and changes no state.
C7_NonDrawerSelectChangesNothing ==
    [][\A c \in ConnIds, word \in Words :
         /\ (SocketWordSelect(c, word) /\ ~IsDrawer(c, conn[c].room))
               => EngineUnchanged
         /\ \A raw \in RawRooms :
              (GrpcWordSelect(c, raw, word) /\ ~IsDrawer(c, raw))
                 => EngineUnchanged]_vars

\* A wordSelect was rejected in a room of two whose turn has a drawer.
C7_Witness ==
    /\ last = "wordSelect" /\ emitted = <<>>
    /\ \E r \in RawRooms :
         /\ Len(Roster(r)) = 2
         /\ Has(roomGames, r) /\ roomGames[r].currentDrawer # Null
         /\ roomGames[r].currentWord = NullWord

\* The connections registered for room r.
ConnectionsOf(r) ==
    IF variant = "grpc"
    THEN IF ConnsHas(roomConnections, r) THEN ConnsGet(roomConnections, r) ELSE {}
    ELSE {c \in DOMAIN conn : conn[c].status = "open" /\ conn[c].room = r}

\* What a wordSelect(word) by drawer c of room r must leave behind.
WordSelected(c, r, word) ==
    /\ roomGames'[r].currentWord = word
    /\ roomGames'[r].currentDrawer = c
    /\ Len(emitted') = 2
    /\ emitted'[1] = [room |-> r, to |-> ConnectionsOf(r),
                      ev |-> [type |-> "wordSelected", word |-> word, drawer |-> c]]
    /\ emitted'[2] = [room |-> r, to |-> ConnectionsOf(r),
                      ev |-> [type |-> "timerUpdate", remaining |-> 60, total |-> 60]]
    /\ c \in ConnectionsOf(r)
    /\ \A u \in UserIds(Roster(r)) : conn[u].status = "open" => u \in ConnectionsOf(r)
    /\ \E iv \in intervals' :
         /\ TimersOf(r)' = {iv}
         /\ iv.total = 60 /\ iv.now = 0
         /\ roomTimers'[r] = iv.id
    /\ roomGames'[r].timerEndTime = 60

\* C8 (the socket server of part_000 and GameLogic, the code the claim cites;
\* src/index.js has no timer): a wordSelect(word) by the current drawer sets
\* the secret word, delivers wordSelected{word, drawer} and then
\* timerUpdate{60, 60} to every connection of the room, and leaves the room
\* with one fresh 60-second timer.
C8_DrawerSelectStartsRound ==
    [][variant # "legacy" =>
        \A c \in ConnIds, word \in Words :
          /\ (SocketWordSelect(c, word) /\ IsDrawer(c, conn[c].room))
                => WordSelected(c, conn[c].room, word)
          /\ \A raw \in RawRooms :
               (GrpcWordSelect(c, raw, word) /\ IsDrawer(c, raw))
                  => WordSelected(c, raw, word)]_vars

\* The drawer of a room of two has selected a word; both were notified.
C8_Witness ==
    /\ variant # "legacy"
    /\ last = "wordSelect" /\ Len(emitted) = 2
    /\ Cardinality(emitted[1].to) = 2
    /\ emitted[2].ev.type = "timerUpdate"

\* The ids in r's correct-guesser set.
Guessers(r) == IF Has(roomCorrectGuessers, r) THEN roomCorrectGuessers[r] ELSE {}

AwardEvents == {i \in 1..Len(emitted) : emitted[i].ev.type = "guessCorrect"}

\* A chat or guess step of c in room r while c is in r's correct-guesser set.
RepeatGuess(c, r, text) ==
    /\ c \in Guessers(r)
    /\ \/ SocketChatMessage(c, text) /\ r = conn[c].room
       \/ LegacyWordGuess(c, text) /\ r = conn[c].room
       \/ GrpcChatMessage(c, r, text)

\* C9: between two turn starts of a room no id is awarded points twice, and a
\* submission by an id already in the correct-guesser set awards nothing and
\* changes no score.
C9_ScoreOncePerTurn ==
    [][/\ \A p \in DOMAIN awards : awards'[p] <= 1
       /\ \A c \in ConnIds, r \in RawRooms, text \in Texts :
            RepeatGuess(c, r, text) =>
              /\ AwardEvents' = {}
              /\ UNCHANGED <<roomUsers, roomCorrectGuessers>>]_vars

\* A participant who has scored in this turn has sent the word again and the
\* text was relayed as ordinary chat.
C9_Witness ==
    /\ variant # "legacy"
    /\ last = "chatMessage" /\ Len(emitted) = 1
    /\ LET e == emitted[1] IN
       /\ e.ev.type = "chatMessage" /\ ~e.ev.isCorrectGuess
       /\ e.ev.user \in Guessers(e.room)
       /\ awards[<<e.room, e.ev.user>>] = 1
       /\ isCorrect(e.ev.message, roomGames[e.room].currentWord)

\* The points the claim gives for a rank.
PointsOfRank(rank) ==
    CASE rank = 1 -> 100
      [] rank = 2 -> 75
      [] rank = 3 -> 50
      [] rank \in {4, 5} -> 25
      [] OTHER -> 10

PointsOf(users, u) == UserGet(users, u).points

\* C10: a correct guess that is counted inserts the guesser into the room's
\* correct-guesser set; its rank is the size of the set after the insertion;
\* the points are 100, 75, 50, 25, 25 for ranks 1 to 5 and 10 from rank 6 on;
\* they are added to the guesser's total (nobody else's changes) and are
\* reported with the rank in guessCorrect.
C10_RankAndPoints ==
    [][\A r \in RawRooms, u \in DOMAIN conn :
         \A i \in AwardEvents' :
           (emitted'[i].room = r /\ emitted'[i].ev.user = u) =>
             LET rank == Cardinality(Guessers(r)')
                 award == emitted'[i].ev
             IN /\ u \notin Guessers(r)
                /\ Guessers(r)' = Guessers(r) \cup {u}
                /\ award.position = rank
                /\ award.totalCorrect = rank
                /\ award.points = PointsOfRank(rank)
                /\ UserIds(Roster(r)') = UserIds(Roster(r))
                /\ \A v \in UserIds(Roster(r)) :
                     PointsOf(Roster(r)', v) =
                       PointsOf(Roster(r), v)
                         + IF v = u THEN PointsOfRank(rank) ELSE 0]_vars

\* The sixth correct guesser of a turn has just been awarded 10 points and
\* the fifth before them 25.
C10_Witness ==
    /\ last \in {"chatMessage", "wordGuess"}
    /\ \E i \in AwardEvents :
         LET e == emitted[i] IN
         /\ e.ev.position = 6 /\ e.ev.points = 10
         /\ PointsOf(Roster(e.room), e.ev.user) = 10
         /\ \E v \in UserIds(Roster(e.room)) : PointsOf(Roster(e.room), v) = 25

\* C11: as long as a participant stays in a room's roster, no step (a join,
\* a repeated join, a guess, a turn change, a leave of somebody else) lowers
\* the participant's accumulated points.
C11_PointsNeverDecrease ==
    [][\A r \in RawRooms, u \in DOMAIN conn :
         (u \in UserIds(Roster(r)) /\ u \in UserIds(Roster(r)')) =>
            PointsOf(Roster(r)', u) >= PointsOf(Roster(r), u)]_vars

\* Lower-cased and with the surrounding whitespace trimmed.
Normalized(text) == trim(toLowerCase(text))

\* The step is c submitting text as a guess in room r.
GuessStep(c, r, text) ==
    \/ variant = "socket" /\ SocketChatMessage(c, text) /\ r = conn[c].room
    \/ variant = "legacy" /\ LegacyWordGuess(c, text) /\ r = conn[c].room
    \/ variant = "grpc" /\ GrpcChatMessage(c, r, text)

\* c may score in room r: a word is set, c is not the drawer and has not
\* scored in this turn.
MayScore(c, r) ==
    /\ Has(roomGames, r)
    /\ Truthy(roomGames[r].currentWord)
    /\ roomGames[r].currentDrawer # c
    /\ c \notin Guessers(r)

\* The step awarded c for a correct guess in room r.
Awarded(c, r) ==
    \E i \in AwardEvents' : emitted'[i].room = r /\ emitted'[i].ev.user = c

\* C12: a guess by a non-drawer who has not scored yet is counted as correct
\* exactly when the guess and the secret word are equal after both are
\* lower-cased and trimmed (stated for secret words that are not all
\* whitespace).
C12_CorrectIffNormalizedEqual ==
    [][\A c \in DOMAIN conn, r \in RawRooms, text \in GuessTexts :
         (/\ GuessStep(c, r, text)
          /\ MayScore(c, r)
          /\ Normalized(roomGames[r].currentWord) # <<>>) =>
            (Awarded(c, r) <=>
               Normalized(text) = Normalized(roomGames[r].currentWord))]_vars

\* The step is c sending text as a chatMessage to room r (the socket server
\* of part_000 and GameLogic; src/index.js scores the separate word:guess).
ChatStep(c, r, text) ==
    \/ variant = "socket" /\ SocketChatMessage(c, text) /\ r = conn[c].room
    \/ variant = "grpc" /\ GrpcChatMessage(c, r, text)

\* The text of c is evaluated as a correct guess in room r.
EvaluatedCorrect(c, r, text) ==
    MayScore(c, r) /\ isCorrect(text, roomGames[r].currentWord)

\* Outcome one: roster update, guessCorrect and the tagged chat line go to
\* the room, and no delivery carries the text.
CorrectOutcome(c, r, text) ==
    /\ EventTypes' = <<"usersUpdate", "guessCorrect", "chatMessage">>
    /\ \A i \in 1..3 : emitted'[i].room = r /\ emitted'[i].to = ConnectionsOf(r)
    /\ emitted'[1].ev.users = Roster(r)'
    /\ emitted'[2].ev.user = c
    /\ emitted'[3].ev.isCorrectGuess /\ emitted'[3].ev.user = c
    /\ emitted'[3].ev.message # text

\* Outcome two: the text goes verbatim, untagged, to the room and nothing
\* else happens.
RelayOutcome(c, r, text) ==
    LET relay == [room |-> r, to |-> ConnectionsOf(r),
                  ev |-> [type |-> "chatMessage", user |-> c,
                          message |-> text, isCorrectGuess |-> FALSE]]
    IN /\ emitted' = IF ConnectionsOf(r) = {} THEN <<>> ELSE <<relay>>
       /\ UNCHANGED <<roomUsers, roomGames, roomTimers, intervals,
                      roomTurnOrder, roomTurnIndex, roomConnections>>
       /\ \A q \in RawRooms : Guessers(q)' = Guessers(q)

\* C13: a chatMessage that is evaluated correct gives the room a roster
\* update, a guessCorrect and a chat line tagged isCorrectGuess, and its text
\* is delivered to nobody; any other chatMessage (no word, sender is the
\* drawer, sender has scored, text incorrect) is relayed verbatim to the room
\* and changes no score, correct-guesser set or game state.
C13_ChatOutcomes ==
    [][\A c \in DOMAIN conn, r \in RawRooms, text \in Texts :
         ChatStep(c, r, text) =>
            IF EvaluatedCorrect(c, r, text)
            THEN CorrectOutcome(c, r, text)
            ELSE RelayOutcome(c, r, text)]_vars

\* A correct guess has just been answered with the three events, delivered
\* to both connections of the room.
C13_Witness ==
    /\ variant # "legacy" /\ last = "chatMessage"
    /\ EventTypes = <<"usersUpdate", "guessCorrect", "chatMessage">>
    /\ Cardinality(emitted[3].to) = 2
    /\ emitted[3].ev.isCorrectGuess

\* The connections the engine holds as joined to room r.
JoinedTo(r) ==
    IF variant = "grpc"
    THEN {c \in ConnectionsOf(r) : conn[c].status = "open"}
    ELSE ConnectionsOf(r)

Ascending(ids) == \A i, j \in 1..Len(ids) : i < j => ids[i] < ids[j]

\* The ids a usersUpdate payload lists, in the order listed.
Listed(e) == [i \in 1..Len(e.ev.users) |-> e.ev.users[i].id]

\* C14: every usersUpdate payload lists exactly the participants whose
\* connections are open and joined to the room, each once, and no departed
\* one; in the socket servers, where a connection joins as it arrives, in
\* the order of arrival.
C14_UsersUpdateIsRoster ==
    \A i \in 1..Len(emitted) :
       emitted[i].ev.type = "usersUpdate" =>
          LET ids == Listed(emitted[i]) IN
          /\ \A u \in UserIds(emitted[i].ev.users) : conn[u].status = "open"
          /\ UserIds(emitted[i].ev.users) = JoinedTo(emitted[i].room)
          /\ \A j, k \in 1..Len(ids) : ids[j] = ids[k] => j = k
          /\ IsSocket => Ascending(ids)

\* The rooms whose roster lists c.
RostersOf(c) == {r \in DOMAIN roomUsers : c \in UserIds(roomUsers[r])}

\* The rooms whose connection set holds c.
ConnectionSetsOf(c) ==
    {i \in 1..Len(roomConnections) : c \in roomConnections[i].calls}

\* C17: a connection's participant is in the roster of at most one room, and
\* a connection that has ended is in no roster and in no connection set.
C17_OneRoomPerConnection ==
    \A c \in DOMAIN conn :
       /\ Cardinality(RostersOf(c)) <= 1
       /\ conn[c].status = "closed" =>
            RostersOf(c) = {} /\ ConnectionSetsOf(c) = {}

\* The step started a turn in room r.
TurnStartedIn(r) ==
    \E i \in 1..Len(emitted') :
       emitted'[i].ev.type = "turnStart" /\ emitted'[i].room = r

\* C15 (round-robin policy), the consequence the claim names: when a timer
\* expires in a room with at least two participants present, the drawer of
\* the turn that starts differs from the drawer of the turn that ended, as
\* it must if everybody present draws once before anybody draws again.
C15_NextDrawerDiffers ==
    [][variant = "socket" =>
         \A iv \in intervals :
            (TimerTick(iv) /\ TurnStartedIn(iv.room) /\ Len(Roster(iv.room)) >= 2)
               => roomGames'[iv.room].currentDrawer
                    # roomGames[iv.room].currentDrawer]_vars

TurnStartEvents == {i \in 1..Len(emitted) : emitted[i].ev.type = "turnStart"}

\* The state of room r right after a turn has started in it.
TurnJustStarted(r) ==
    /\ \E i \in TurnStartEvents :
         /\ TurnStartEvents = {i}
         /\ emitted[i].room = r
         /\ emitted[i].to = ConnectionsOf(r)
         /\ emitted[i].ev.drawer.id = roomGames[r].currentDrawer
         /\ \A u \in UserIds(Roster(r)) :
              conn[u].status = "open" => u \in emitted[i].to
    /\ roomGames[r].currentDrawer \in UserIds(Roster(r))
    /\ roomGames[r].currentWord = NullWord
    /\ roomGames[r].gameStarted
    /\ Guessers(r) = {}
    /\ TimersOf(r) = {} /\ ~Has(roomTimers, r)

\* The step runs startNewTurn on room r, whose roster is not empty: an
\* accepted gameStart or the expiry of r's timer.
StartsNewTurn(r) ==
    /\ ~RosterEmpty(r)
    /\ \/ \E c \in DOMAIN conn :
            /\ ~StartRejected(c, r)
            /\ \/ SocketGameStart(c) /\ r = conn[c].room
               \/ GrpcGameStart(c, r)
       \/ \E iv \in TimersOf(r) : TimerTick(iv) /\ iv.total - iv.now = 1

\* C16: right after every startNewTurn on a room with a non-empty roster
\* (either policy, and the fallback after skipping) the drawer is in the
\* roster, no word is set, the game is started, the correct-guesser set is
\* empty, the room has no timer, and one turnStart naming the drawer has
\* gone to the whole room; nothing else starts a turn.
C16_AfterStartNewTurn ==
    [][\A r \in RawRooms :
         /\ StartsNewTurn(r) => TurnJustStarted(r)'
         /\ TurnStartedIn(r) => StartsNewTurn(r)]_vars

\* The round-robin policy has skipped the participant who left, found nobody
\* within its attempts and fallen back to the first participant of the roster.
C16_Witness ==
    /\ variant = "socket" /\ last = "tick"
    /\ \E r \in RawRooms :
         /\ TurnJustStarted(r)
         /\ Len(Roster(r)) = 1
         /\ Len(roomTurnOrder[r]) = 2
         /\ roomTurnIndex[r] = 0

\* C18: in every room, a secret word that is set implies a drawer that is
\* set.
C18_WordImpliesDrawer ==
    \A r \in DOMAIN roomGames :
       roomGames[r].currentWord # NullWord => roomGames[r].currentDrawer # Null

\* A room has a word and a drawer, and the drawer has left the room.
C18_Witness ==
    \E r \in DOMAIN roomGames :
       /\ roomGames[r].currentWord # NullWord
       /\ roomGames[r].currentDrawer # Null
       /\ ~RosterEmpty(r)
       /\ roomGames[r].currentDrawer \notin UserIds(Roster(r))

\* Room r is in a turn for which no word has been selected.
AwaitingWord(r) ==
    /\ Has(roomGames, r)
    /\ roomGames[r].gameStarted
    /\ roomGames[r].currentWord = NullWord

\* C19 (the servers that have a round timer), the case the claim names: with
\* timers that keep firing, a turn whose drawer never selects a word still
\* ends; after its turnStart, in a room whose roster stays non-empty, another
\* turnStart follows.
C19_EveryTurnEnds ==
    \A n \in 1..(MaxTurns - 1) :
       (variant # "legacy" /\ turns = n /\ AwaitingWord(DefaultRoom))
          ~> \/ turns > n
             \/ RosterEmpty(DefaultRoom)
             \/ ~AwaitingWord(DefaultRoom)

\* A is connection 1, B is connection 2.
ScenarioA == 1

ScenarioB == 2

\* A and B are in the room, the drawer's selection of "apple" has just been
\* announced, and nobody has scored.
AppleSelected ==
    /\ last = "wordSelect" /\ emitted # <<>>
    /\ UserIds(Roster(DefaultRoom)) = {ScenarioA, ScenarioB}
    /\ roomGames[DefaultRoom].currentWord = Apple
    /\ Guessers(DefaultRoom) = {}
    /\ \A u \in {ScenarioA, ScenarioB} : PointsOf(Roster(DefaultRoom), u) = 0

\* The outcome the scenario states for B's chat "apple".
AppleScored ==
    /\ \A i \in 1..Len(emitted') :
         emitted'[i].ev.type = "chatMessage" => emitted'[i].ev.message # Apple
    /\ \E i \in AwardEvents' :
         /\ emitted'[i].to = {ScenarioA, ScenarioB}
         /\ emitted'[i].ev.user = ScenarioB
         /\ emitted'[i].ev.points = 100 /\ emitted'[i].ev.position = 1
    /\ \E i \in 1..Len(emitted') :
         /\ emitted'[i].ev.type = "chatMessage" /\ emitted'[i].ev.isCorrectGuess
         /\ emitted'[i].to = {ScenarioA, ScenarioB}
    /\ PointsOf(Roster(DefaultRoom)', ScenarioB) = 100

\* The step is B sending chat "apple" right after the selection.
AppleChat ==
    /\ variant # "legacy"
    /\ AppleSelected
    /\ ChatStep(ScenarioB, DefaultRoom, Apple)

\* C20 as stated: whoever the policy made the drawer, B's chat "apple" is
\* not relayed, both connections receive guessCorrect{100, 1} and the tagged
\* chat line, and B has 100 points.
C20_ScenarioAnyDrawer == [][AppleChat => AppleScored]_vars

\* C20 amended: that outcome when the drawer is A; when the random policy
\* made B the drawer, B's chat "apple" is relayed verbatim to both and B's
\* points stay 0.
C20_Scenario ==
    [][AppleChat =>
         IF roomGames[DefaultRoom].currentDrawer = ScenarioA
         THEN AppleScored
         ELSE /\ RelayOutcome(ScenarioB, DefaultRoom, Apple)
              /\ PointsOf(Roster(DefaultRoom)', ScenarioB) = 0]_vars

\* B has just scored 100 for "apple" with A drawing.
C20_Witness ==
    /\ variant # "legacy" /\ last = "chatMessage"
    /\ roomGames[DefaultRoom].currentWord = Apple
    /\ roomGames[DefaultRoom].currentDrawer = ScenarioA
    /\ AwardEvents # {}
    /\ PointsOf(Roster(DefaultRoom), ScenarioB) = 100
    /\ PointsOf(Roster(DefaultRoom), ScenarioA) = 0

Started(r) == Has(roomGames, r) /\ roomGames[r].gameStarted

\* C21: once a gameStart has succeeded in a room, the room's started flag
\* stays true for as long as the room's game state exists; a turn that
\* starts in a room that has already started comes from the expiry of the
\* room's timer, never from a gameStart, and a gameStart addressed to a
\* started room changes nothing.
C21_StartedUntilDeleted ==
    [][\A r \in RawRooms :
         Started(r) =>
           /\ Has(roomGames', r) => roomGames'[r].gameStarted
           /\ TurnStartedIn(r) => \E iv \in TimersOf(r) : TimerTick(iv)
           /\ \A c \in ConnIds :
                ((SocketGameStart(c) /\ conn[c].room = r) \/ GrpcGameStart(c, r))
                   => EngineUnchanged]_vars

\* The room creator's gameStart was turned down in a started room where the
\* creator is alone.
C21_Witness ==
    /\ last = "gameStart" /\ emitted = <<>>
    /\ \E r \in RawRooms :
         /\ Started(r)
         /\ Len(Roster(r)) = 1
         /\ ConnectionsOf(r) = UserIds(Roster(r))
         /\ \A c \in ConnIds : conn[c].status = "open" => c \in ConnectionsOf(r)

\* The store with every failed stream working again.
Healthy(S) ==
    [S EXCEPT !.conn =
        [c \in DOMAIN S.conn |->
            IF S.conn[c].status = "broken"
            THEN [S.conn[c] EXCEPT !.status = "open"] ELSE S.conn[c]]]

\* The step left the engine as H, the outcome of the same handler with no
\* failing write, wrote the same events in the same order to the same
\* connections but those whose write fails, and the process lives on.
SameButFailedWrites(H) ==
    /\ roomUsers' = H.roomUsers
    /\ roomGames' = H.roomGames
    /\ roomCorrectGuessers' = H.roomCorrectGuessers
    /\ roomTimers' = H.roomTimers
    /\ intervals' = H.intervals
    /\ roomConnections' = H.roomConnections
    /\ crashed' = crashed
    /\ Len(emitted') = Len(H.emitted)
    /\ \A i \in 1..Len(H.emitted) :
          /\ emitted'[i].ev = H.emitted[i].ev
          /\ emitted'[i].room = H.emitted[i].room
          /\ emitted'[i].to =
                {d \in H.emitted[i].to : conn[d].status # "broken"}

\* Every event of the step went to all connections registered for its room
\* whose write works, but those of excl; the first `private` events are
\* written to one call directly.
BroadcastToAll(excl, private) ==
    \A r \in RawRooms, i \in 1..Len(emitted') :
       (i > private /\ emitted'[i].room = r)
          => emitted'[i].to = {d \in ConnectionsOf(r)' \ excl :
                                  conn[d].status # "broken"}

\* C22: a broadcast reaches every connection registered for the room but
\* the excluded one; a write that fails on one connection keeps the event
\* from that connection only, raises nothing out of the broadcast, and
\* leaves the engine's state as the handler leaves it without the failure.
C22_BroadcastSurvivesFailedWrite ==
    [][\A c \in DOMAIN conn :
         /\ GrpcJoin(c, NoRoom)
               => /\ BroadcastToAll({c}, 1)
                  /\ SameButFailedWrites(handleJoin(Healthy(Store), c, NoRoom))
         /\ (GrpcEnd(c) \/ GrpcError(c))
               => /\ BroadcastToAll({}, 0)
                  /\ SameButFailedWrites(cleanup(Healthy(Store), c))
         /\ GrpcGameStart(c, DefaultRoom)
               => /\ BroadcastToAll({}, 0)
                  /\ \E rnd \in RandomIndexes(Store, DefaultRoom) :
                       SameButFailedWrites(
                         handleGameStart(Healthy(Store), c, DefaultRoom, rnd))
         /\ \A raw \in RawRooms :
              /\ \A segment \in Segments :
                   GrpcSegment(c, raw, segment)
                      => /\ BroadcastToAll({c}, 0)
                         /\ SameButFailedWrites(
                              handleSegment(Healthy(Store), c, raw, segment))
              /\ GrpcClear(c, raw)
                    => /\ BroadcastToAll({c}, 0)
                       /\ SameButFailedWrites(
                            handleClear(Healthy(Store), c, raw))
              /\ \A cursor \in Positions :
                   GrpcCursor(c, raw, cursor)
                      => /\ BroadcastToAll({c}, 0)
                         /\ SameButFailedWrites(
                              handleCursor(Healthy(Store), c, raw, cursor))]_vars

\* A turnStart has reached two connections of a room in which the stream of
\* a third registered connection has failed.
C22_Witness ==
    /\ variant = "grpc" /\ last = "gameStart" /\ ~crashed
    /\ \E i \in 1..Len(emitted) :
          /\ emitted[i].ev.type = "turnStart"
          /\ Cardinality(emitted[i].to) = 2
          /\ \E d \in ConnectionsOf(emitted[i].room) :
                conn[d].status = "broken" /\ d \notin emitted[i].to

\* The engine's maps, the timers and the process are as before the step.
EngineKept ==
    UNCHANGED <<roomUsers, roomGames, roomCorrectGuessers, roomTimers,
                intervals, roomTurnOrder, roomTurnIndex, roomConnections,
                crashed, turns, awards>>

\* The connections of room r a write can reach.
Receivers(r) == {d \in ConnectionsOf(r) : conn[d].status # "broken"}

\* The step delivered one event of type `type` to every other connection of
\* r, not to c, and did nothing else.
Relayed(c, r, type) ==
    /\ \A d \in Receivers(r) \ {c} :
          \E i \in 1..Len(emitted') :
             d \in emitted'[i].to /\ emitted'[i].ev.type = type
    /\ \A i \in 1..Len(emitted') :
          /\ emitted'[i].to = Receivers(r) \ {c}
          /\ emitted'[i].ev.type = type
    /\ Len(emitted') <= 1
    /\ EngineKept

\* Every event of the step carries `body` as its payload.
Carries(type, body) ==
    \A i \in 1..Len(emitted') : emitted'[i].ev[type] = body

\* The room a gRPC participant is in: the one whose roster and connection
\* set hold it.
InRoom(c, r) == c \in UserIds(Roster(r)) /\ c \in ConnectionsOf(r)

\* C23: a segment, clear or cursor event of a participant goes to every
\* other connection of the participant's room and never back to the
\* sender, with the payload as it was sent, and changes neither rosters nor
\* game states, correct-guesser sets, timers or turn orders.
C23_RelayToOthers ==
    [][\A c \in DOMAIN conn :
         /\ \A segment \in Segments :
              /\ SocketSegment(c, segment)
                    => Relayed(c, conn[c].room, "segment")
                       /\ Carries("segment", segment)
              /\ \A raw \in RawRooms :
                   (GrpcSegment(c, raw, segment) /\ InRoom(c, getRoom(raw)))
                      => Relayed(c, getRoom(raw), "segment")
                         /\ Carries("segment", segment)
         /\ SocketClear(c) => Relayed(c, conn[c].room, "clear")
         /\ \A raw \in RawRooms :
              (GrpcClear(c, raw) /\ InRoom(c, getRoom(raw)))
                 => Relayed(c, getRoom(raw), "clear")
         /\ \A cursor \in Positions :
              /\ SocketCursor(c, cursor)
                    => Relayed(c, conn[c].room, "cursor")
                       /\ Carries("cursor", cursor)
              /\ \A raw \in RawRooms :
                   (GrpcCursor(c, raw, cursor) /\ InRoom(c, getRoom(raw)))
                      => Relayed(c, getRoom(raw), "cursor")
                         /\ Carries("cursor", cursor)]_vars

\* What a map holds for key k, if anything.
Entry(m, k) == IF Has(m, k) THEN <<m[k]>> ELSE <<>>

\* The step left room r as it was: roster, game state, correct guessers,
\* timer, turn order and cursor, and the connections registered for it.
RoomUntouched(r) ==
    /\ Entry(roomUsers, r)' = Entry(roomUsers, r)
    /\ Entry(roomGames, r)' = Entry(roomGames, r)
    /\ Entry(roomCorrectGuessers, r)' = Entry(roomCorrectGuessers, r)
    /\ Entry(roomTimers, r)' = Entry(roomTimers, r)
    /\ TimersOf(r)' = TimersOf(r)
    /\ Entry(roomTurnOrder, r)' = Entry(roomTurnOrder, r)
    /\ Entry(roomTurnIndex, r)' = Entry(roomTurnIndex, r)
    /\ ConnectionsOf(r)' = ConnectionsOf(r)

\* Every room key that occurs: the two rooms and the absent key as it comes.
AllRooms == GameRooms \cup {NoRoom}

\* The step touched room r alone: every other room is as it was and still
\* served, and every event went to connections registered for r.
OnlyRoom(r) ==
    /\ \A o \in AllRooms \ {r} : RoomUntouched(o)
    /\ ~crashed'
    /\ \A i \in 1..Len(emitted') :
          /\ emitted'[i].room = r
          /\ emitted'[i].to \subseteq (ConnectionsOf(r) \cup ConnectionsOf(r)')

\* C24: rooms are independent: an operation or a timer tick addressed to a
\* room leaves roster, game state, correct-guesser set, timer and turn
\* order of every other room as they were and delivers events only to
\* connections registered for the addressed room.
C24_RoomsIndependent ==
    [][\A r \in AllRooms :
         /\ \A c \in DOMAIN conn :
              /\ (r = OtherRoom
                  /\ (SocketConnection(c, r) \/ GrpcJoin(c, r)))
                    => OnlyRoom(r)
              /\ (/\ conn[c].room = r
                  /\ \/ SocketDisconnect(c)
                     \/ SocketGameStart(c)
                     \/ \E text \in Texts :
                           SocketChatMessage(c, text) \/ LegacyWordGuess(c, text))
                    => OnlyRoom(r)
              /\ (\/ GrpcGameStart(c, r)
                  \/ \E text \in Texts : GrpcChatMessage(c, r, text))
                    => OnlyRoom(r)
              /\ GrpcEnd(c) => \E o \in AllRooms : OnlyRoom(o)
         /\ \A iv \in TimersOf(r) : TimerTick(iv) => OnlyRoom(r)]_vars

\* The step did what handler outcome H does.
ActsAs(H) ==
    /\ roomUsers' = H.roomUsers
    /\ roomGames' = H.roomGames
    /\ roomCorrectGuessers' = H.roomCorrectGuessers
    /\ roomTimers' = H.roomTimers
    /\ intervals' = H.intervals
    /\ roomConnections' = H.roomConnections
    /\ emitted' = H.emitted

\* C25: an absent room key means the default room for every operation: a
\* participant of the default room who sends gameStart, wordSelect or
\* chatMessage without a room key acts on the default room.
C25_AbsentKeyIsDefaultRoom ==
    [][\A c \in DOMAIN conn :
         InRoom(c, DefaultRoom) =>
           /\ GrpcGameStart(c, NoRoom)
                 => \E rnd \in RandomIndexes(Store, DefaultRoom) :
                       ActsAs(handleGameStart(Store, c, getRoom(NoRoom), rnd))
           /\ \A word \in Words :
                GrpcWordSelect(c, NoRoom, word)
                   => ActsAs(handleWordSelect(Store, c, getRoom(NoRoom), word))
           /\ \A text \in Texts :
                GrpcChatMessage(c, NoRoom, text)
                   => ActsAs(handleChatMessage(Store, c, getRoom(NoRoom), text))]_vars

\* C26: an operation that names a room without roster, or comes from a
\* connection that is not in the room's roster, does nothing: a gameStart,
\* wordSelect or chatMessage of such a sender and the leave of a connection
\* that is in no room change no state and create no entry, and the timer
\* expiry of a room without roster raises no error.
C26_NoRosterNoOp ==
    [][/\ \A c \in DOMAIN conn :
            /\ \A r \in RawRooms :
                 c \notin UserIds(Roster(r)) =>
                   /\ GrpcGameStart(c, r) => EngineKept
                   /\ \A word \in Words :
                        GrpcWordSelect(c, r, word) => EngineKept
                   /\ \A text \in Texts :
                        GrpcChatMessage(c, r, text) => EngineKept
            /\ (GrpcEnd(c) /\ \A r \in RawRooms : c \notin ConnectionsOf(r))
                  => EngineKept
       /\ \A iv \in intervals :
            (TimerTick(iv) /\ RosterEmpty(iv.room)) => ~crashed']_vars

WordSet(r) == Has(roomGames, r) /\ roomGames[r].currentWord # NullWord

\* C27: while the server runs, a room has an active timer exactly when its
\* secret word has been selected and no new turn has reset it (engines with
\* a round timer).
C27_TimerIffWord ==
    (variant # "legacy" /\ ~crashed) =>
       \A r \in RawRooms :
          /\ Has(roomTimers, r) <=> WordSet(r)
          /\ TimersOf(r) # {} <=> WordSet(r)

\* The timer of a room has expired: the new turn has reset the word, and the
\* room has no timer.
C27_Witness ==
    /\ variant # "legacy" /\ ~crashed /\ last = "tick"
    /\ \E r \in RawRooms :
         /\ Has(roomGames, r) /\ ~WordSet(r)
         /\ ~Has(roomTimers, r) /\ TimersOf(r) = {}
         /\ \E i \in 1..Len(emitted) :
               emitted[i].ev.type = "turnStart" /\ emitted[i].room = r

\* C28: only the members of a room affect its scoring: a chatMessage that
\* names a room and comes from a connection outside the room's roster adds
\* nobody to the room's correct-guesser set.
C28_OnlyMembersScore ==
    [][\A c \in DOMAIN conn, r \in RawRooms, text \in Texts :
         (GrpcChatMessage(c, r, text) /\ c \notin UserIds(Roster(r)))
            => Guessers(r)' = Guessers(r)]_vars

\* Connection c, the drawer of room r, selects `word` while a word is set.
Reselects(c, r, word) ==
    /\ IsDrawer(c, r) /\ WordSet(r)
    /\ \/ SocketWordSelect(c, word) /\ conn[c].room = r
       \/ GrpcWordSelect(c, r, word)

\* Connection c sends a chat text or a guess to room r.
Guesses(c, r) ==
    \E text \in Texts :
       \/ (SocketChatMessage(c, text) \/ LegacyWordGuess(c, text))
          /\ conn[c].room = r
       \/ GrpcChatMessage(c, r, text)

\* C29: a wordSelect of the drawer while a word is set replaces the word
\* and leaves drawer, started flag, rosters with their points and the
\* correct-guesser set as they were; where the engine has a round timer the
\* running one is cancelled and a new one counts from the full 60 seconds.
\* Whoever is in the correct-guesser set scores on no word of the turn.
C29_ReselectRestartsRound ==
    [][\A c \in DOMAIN conn, r \in RawRooms :
         /\ \A word \in Words :
              Reselects(c, r, word) =>
                /\ roomGames'[r].currentWord = word
                /\ roomGames'[r].currentDrawer = c
                /\ roomGames'[r].gameStarted = roomGames[r].gameStarted
                /\ Guessers(r)' = Guessers(r)
                /\ roomUsers' = roomUsers
                /\ variant # "legacy" =>
                     /\ Has(roomTimers', r)
                     /\ TimersOf(r)' = {[id |-> roomTimers'[r], room |-> r,
                                         total |-> RoundSeconds, now |-> 0]}
                     /\ roomGames'[r].timerEndTime = RoundSeconds
                     /\ \E i \in 1..Len(emitted') :
                           IsTimerUpdate(emitted'[i], r, RoundSeconds,
                                         RoundSeconds)
         /\ (Guesses(c, r) /\ c \in Guessers(r)) =>
               /\ Guessers(r)' = Guessers(r)
               /\ roomUsers' = roomUsers
               /\ \A i \in 1..Len(emitted') :
                     emitted'[i].ev.type # "guessCorrect"]_vars

\* The drawer has selected a word again in a turn in which somebody had
\* guessed the word before: the round's timer has just been set.
C29_Witness ==
    /\ variant # "legacy" /\ last = "wordSelect" /\ emitted # <<>>
    /\ \E r \in RawRooms :
         /\ Guessers(r) # {}
         /\ WordSet(r)
         /\ \E iv \in TimersOf(r) : iv.now = 0 /\ iv.total = RoundSeconds

====
